---------------------------- MODULE Spec2Model ----------------------------
(***************************************************************************)
(* A model of Sunderbans_mangrove_urban_map: the script that fetches two   *)
(* rasters, clips and vectorizes them, buffers the mangrove polygons,      *)
(* overlays the buffers with the built-up polygons, writes a Folium map    *)
(* and prints area statistics.                                             *)
(*                                                                         *)
(* The file system survives from one run of the script to the next; the    *)
(* in-memory objects are rebuilt by every run.  A raster is a grid of      *)
(* cells over the area of interest.  A polygon is the set of grid cells    *)
(* it covers: the region of the Earth it stands for, whatever CRS its      *)
(* coordinates are written in.  The CRS of a layer decides how the         *)
(* operations that read coordinates (buffer, area, overlay) behave.        *)
(***************************************************************************)
EXTENDS Integers, Sequences, FiniteSets, TLC

(***************************************************************************)
(* Bounds of the model.                                                    *)
(***************************************************************************)
\* Width and height of the clipped rasters, in cells.
GridW == 3
GridH == 3
\* The most cells of a served mangrove raster that differ from its background.
MaxMangrovePx == 2
\* The most cells of a served built-up raster that differ from its background.
MaxBuiltPx == 1
\* The most runs of the script against one data directory.
MaxRuns == 2
\* The most (shape, value) pairs of a shape generator handed to shapes_to_gdf.
MaxShapes == 3

(***************************************************************************)
(* Program constants.                                                      *)
(***************************************************************************)
\* buffer(0.05): one grid cell of the model is 0.05 degrees wide, so the
\* buffer distance is one cell when the layer's unit is the degree.
BufferDist == 1
\* mangrove.squeeze() == 1
MangroveClass == 1
\* builtup.squeeze() > 0
BuiltupThreshold == 0
\* the value shapes_to_gdf keeps: if v == 1
KeptValue == 1

\* masked=True turns a nodata cell into NaN; every comparison with it is false.
NoData == -1

figshare_url == "figshare_url"
ghsl_url == "ghsl_url"
mangrove_tif == "mangrove_tif"
ghsl_tif == "ghsl_tif"
\* Any archive member other than the GeoTIFF named by ghsl_tif.
ghsl_other == "ghsl_other"
html_map == "sundarbans_mangrove_builtup_map.html"
equal_area_crs == "EPSG:6933"
geographic_crs == "EPSG:4326"

Files == {mangrove_tif, ghsl_tif, ghsl_other, html_map}

(***************************************************************************)
(* File contents.  Absent: no such file.  Dataset: the complete body of a  *)
(* successful response (a readable GeoTIFF).  ErrBody: the body of a       *)
(* response with an HTTP error status.  Partial: what a write cut short by *)
(* a disk error left.  Doc: an archive member that is not the GeoTIFF.     *)
(* MapHtml: the rendered map.                                              *)
(***************************************************************************)
Absent == "absent"
Dataset == "dataset"
ErrBody == "errbody"
Partial == "partial"
Doc == "doc"
MapHtml == "map"

(***************************************************************************)
(* Grid geometry.                                                          *)
(***************************************************************************)
Cells == (1..GridW) \X (1..GridH)

\* Cells the buffer of a grid polygon can reach.
Plane == ((1 - BufferDist)..(GridW + BufferDist)) \X ((1 - BufferDist)..(GridH + BufferDist))

\* Row-major position of a cell: the order in which a raster is scanned.
ScanIndex(c) == (c[2] - 1) * GridW + c[1]

FirstCell(A) == CHOOSE c \in A : \A d \in A : ScanIndex(c) <= ScanIndex(d)

\* rasterio.features.shapes traces regions with connectivity 4.
Adj4(c) == {<<c[1] + 1, c[2]>>, <<c[1] - 1, c[2]>>, <<c[1], c[2] + 1>>, <<c[1], c[2] - 1>>}

RECURSIVE Flood(_, _)
Flood(S, A) ==
    LET N == S \cup {c \in A : Adj4(c) \cap S # {}}
    IN IF N = S THEN S ELSE Flood(N, A)

RECURSIVE SeqSum(_)
SeqSum(s) == IF s = <<>> THEN 0 ELSE Head(s) + SeqSum(Tail(s))

Range(s) == {s[i] : i \in 1..Len(s)}

(***************************************************************************)
(* Rasters.  A raster is [crs, data]: data maps each cell of the clipped   *)
(* grid to its value.  Unbound stands for a name no statement of the run   *)
(* has assigned yet.                                                       *)
(***************************************************************************)
Unbound == "unbound"
\* A raster file without georeferencing: rio.crs is None.
NaiveCrs == "none"
SourceCrs == {geographic_crs, "EPSG:3857", NaiveCrs}

NoRaster == [crs |-> Unbound, data |-> <<>>]
NoLayer == [crs |-> Unbound, geometry |-> <<>>]
NoStats == [computed |-> FALSE, mangrove |-> 0, builtup |-> 0, within |-> 0]

\* Every grid with background bg and at most k cells holding a value of vals.
GridsWith(bg, vals, k) ==
    UNION {{[c \in Cells |-> IF c \in S THEN f[c] ELSE bg] : f \in [S -> vals]} :
           S \in {T \in SUBSET Cells : Cardinality(T) <= k}}

\* mangrove_mask = (mangrove.squeeze() == 1), as uint8
mangrove_mask(r) ==
    [c \in DOMAIN r.data |-> IF r.data[c] # NoData /\ r.data[c] = MangroveClass THEN 1 ELSE 0]

\* builtup_mask = (builtup.squeeze() > 0), as uint8
builtup_mask(r) ==
    [c \in DOMAIN r.data |-> IF r.data[c] # NoData /\ r.data[c] > BuiltupThreshold THEN 1 ELSE 0]

(***************************************************************************)
(* features.shapes(image): one (geometry, value) pair per 4-connected      *)
(* region of equal value, regions taken in scan order of their first cell. *)
(* A traced ring is closed and has at least four corners, so the geometry  *)
(* mapping it yields is well formed.                                       *)
(***************************************************************************)
RECURSIVE ShapesFrom(_, _)
ShapesFrom(image, remaining) ==
    IF remaining = {} THEN <<>>
    ELSE LET c == FirstCell(remaining)
             R == Flood({c}, {d \in remaining : image[d] = image[c]})
         IN <<[geom |-> [cells |-> R, wellformed |-> TRUE], value |-> image[c]]>>
            \o ShapesFrom(image, remaining \ R)

shapes(image) == ShapesFrom(image, DOMAIN image)

(***************************************************************************)
(* shapes_to_gdf.  shape(s) raises on a geometry mapping that is not well  *)
(* formed; the loop catches the exception and goes on with the next pair.  *)
(***************************************************************************)
\* A loop without the test of the value.
KeepEveryValue(v) == TRUE

\* if v == 1
KeepValue(v) == v = KeptValue

\* shape(s) returns (TRUE) or raises (FALSE)
ShapeConstructs(s) == s.wellformed

\* The loop of shapes_to_gdf with `except Exception: break`: it stops at the
\* first pair whose polygon cannot be built.
RECURSIVE GeomsUntilFailure(_)
GeomsUntilFailure(gen) ==
    IF gen = <<>> THEN <<>>
    ELSE LET p == Head(gen)
         IN IF KeepValue(p.value)
            THEN IF ShapeConstructs(p.geom)
                 THEN <<p.geom.cells>> \o GeomsUntilFailure(Tail(gen))
                 ELSE <<>>
            ELSE GeomsUntilFailure(Tail(gen))

\* for s, v in shapes_gen: if v == 1: try: geoms.append(shape(s)) except: continue
RECURSIVE CollectGeoms(_)
CollectGeoms(gen) ==
    IF gen = <<>> THEN <<>>
    ELSE LET p == Head(gen)
         IN IF KeepValue(p.value)
            THEN IF ShapeConstructs(p.geom)
                 THEN <<p.geom.cells>> \o CollectGeoms(Tail(gen))
                 ELSE CollectGeoms(Tail(gen))
            ELSE CollectGeoms(Tail(gen))

\* shapes_to_gdf with the loop that stops at the first failure.
ShapesToGdfBreaking(shapes_gen, crs) == [crs |-> crs, geometry |-> GeomsUntilFailure(shapes_gen)]

shapes_to_gdf(shapes_gen, crs) == [crs |-> crs, geometry |-> CollectGeoms(shapes_gen)]

(***************************************************************************)
(* GeoDataFrame operations.  A layer is [crs, geometry]: geometry is the   *)
(* sequence of its polygons.                                               *)
(***************************************************************************)
\* to_crs raises on a layer without CRS (FALSE), else returns (TRUE).
CanReproject(layer) == layer.crs # NaiveCrs

\* to_crs rewrites the coordinates of every polygon in the target CRS and
\* tags the layer with it; the region a polygon covers stays what it was.
to_crs(layer, crs) == [crs |-> crs, geometry |-> layer.geometry]

\* The distance d of buffer(d), in grid cells: d is read in the unit of the
\* layer's CRS.  A degree is 1/0.05 cells; a metre is less than any cell.
BufferCells(crs) == IF crs = geographic_crs THEN BufferDist ELSE 0

BufferPolygon(g, r) ==
    {c \in Plane : \E d \in g :
        (c[1] - d[1]) * (c[1] - d[1]) + (c[2] - d[2]) * (c[2] - d[2]) <= r * r}

\* mangrove_buffer['geometry'] = mangrove_buffer.buffer(0.05): every polygon
\* of the layer is buffered on its own.
buffer(layer) ==
    [crs |-> layer.crs,
     geometry |-> [i \in 1..Len(layer.geometry) |->
                     BufferPolygon(layer.geometry[i], BufferCells(layer.crs))]]

\* gpd.overlay(df1, df2, how='intersection'): one row per pair of polygons
\* (one of df1, one of df2) that share area, in the order of the pairs.
RECURSIVE IntersectionRows(_, _, _, _)
IntersectionRows(g1, g2, i, j) ==
    IF i > Len(g1) THEN <<>>
    ELSE IF j > Len(g2) THEN IntersectionRows(g1, g2, i + 1, 1)
    ELSE (IF g1[i] \cap g2[j] # {} THEN <<g1[i] \cap g2[j]>> ELSE <<>>)
         \o IntersectionRows(g1, g2, i, j + 1)

\* An overlay with how='union' in place of how='intersection'.
OverlayUnion(df1, df2) ==
    [crs |-> df1.crs, geometry |-> df1.geometry \o df2.geometry]

\* Coordinates written in two different CRS name different places: layers
\* whose CRS differ share no area.
overlay(df1, df2) ==
    [crs |-> df1.crs,
     geometry |-> IF df1.crs = df2.crs
                  THEN IntersectionRows(df1.geometry, df2.geometry, 1, 1)
                  ELSE <<>>]

\* The planar area of one cell in the units of a CRS.  EPSG:6933 is equal
\* area: square metres on the ground, growing towards the equator (row
\* GridH is the southernmost).  EPSG:3857 stretches a cell more the further
\* north it lies.  EPSG:4326 gives every cell the same 0.05 x 0.05 degrees.
CellArea(c, crs) ==
    CASE crs = equal_area_crs -> (2860 + 10 * c[2]) * 10000
      [] crs = "EPSG:3857" -> (3340 - 20 * c[2]) * 10000
      [] OTHER -> 25

RECURSIVE PolygonArea(_, _)
PolygonArea(g, crs) ==
    IF g = {} THEN 0
    ELSE LET c == CHOOSE x \in g : TRUE
         IN CellArea(c, crs) + PolygonArea(g \ {c}, crs)

\* layer.area.sum()
AreaSum(layer) ==
    SeqSum([i \in 1..Len(layer.geometry) |-> PolygonArea(layer.geometry[i], layer.crs)])

\* f"{v:.2f}" of v = area/1e6: hundredths of a square kilometre, rounded.
Formatted(area) == (area + 5000) \div 10000
(***************************************************************************)
(* The fetcher.                                                            *)
(***************************************************************************)
\* An existence test that always answers no.
NeverExists(d, dest) == FALSE

\* os.path.exists(dest)
Exists(d, dest) == d[dest] # Absent

\* What requests.get meets: a successful response, a response with an HTTP
\* error status (no exception: the script never looks at the status), or a
\* network error (an exception).
Responses == {"ok", "http_error", "net_error"}

\* What open(dest, 'wb') and f.write meet: open fails and no file is made,
\* or the file is made and the write fails, or both succeed.
WriteOutcomes == {"ok", "open_fails", "write_fails"}

\* The member lists a served archive can have.
Archives == {{ghsl_tif}, {ghsl_tif, ghsl_other}, {ghsl_other}}

\* What extractall meets: it writes every member, or a disk error at member
\* `at` after the members `before` were written.
ExtractOutcomes(members) ==
    {[fails |-> FALSE, at |-> ghsl_tif, before |-> {}]} \cup
    UNION {{[fails |-> TRUE, at |-> m, before |-> b] : b \in SUBSET (members \ {m})} :
           m \in members}

MemberContent(m) == IF m = ghsl_tif THEN Dataset ELSE Doc

\* The result of a fetch: the disk it leaves, the requests it issued, the
\* archive extractions it started, the exception it raised ("none": it
\* returned) and the files it had created when it raised.
Fetched(d, gets, extracts, raised, wrote) ==
    [disk |-> d, gets |-> gets, extracts |-> extracts, raised |-> raised, wrote |-> wrote]

\* download_file(url, dest)
download_file(d, dest, resp, wr) ==
    IF Exists(d, dest) THEN Fetched(d, 0, 0, "none", {})
    ELSE IF resp = "net_error" THEN Fetched(d, 1, 0, "net_error", {})
    ELSE CASE wr = "open_fails" -> Fetched(d, 1, 0, "disk_error", {})
           [] wr = "write_fails" ->
                Fetched([d EXCEPT ![dest] = Partial], 1, 0, "disk_error", {dest})
           [] OTHER ->
                Fetched([d EXCEPT ![dest] = IF resp = "ok" THEN Dataset ELSE ErrBody],
                        1, 0, "none", {})

\* The GHSL block: get the archive and extract every member of it.  The
\* body of an error response is no archive: ZipFile raises.
download_ghsl(d, resp, members, ex) ==
    IF Exists(d, ghsl_tif) THEN Fetched(d, 0, 0, "none", {})
    ELSE CASE resp = "net_error" -> Fetched(d, 1, 0, "net_error", {})
           [] resp = "http_error" -> Fetched(d, 1, 0, "bad_zip", {})
           [] OTHER ->
                IF ex.fails
                THEN Fetched([f \in Files |->
                                IF f = ex.at THEN Partial
                                ELSE IF f \in ex.before THEN MemberContent(f) ELSE d[f]],
                             1, 1, "disk_error", {ex.at} \cup ex.before)
                ELSE Fetched([f \in Files |-> IF f \in members THEN MemberContent(f) ELSE d[f]],
                             1, 1, "none", {})

(***************************************************************************)
(* The state.                                                              *)
(***************************************************************************)
VARIABLES
    disk,             \* the file system: the content of each file
    src_mangrove,     \* the raster figshare_url serves
    src_builtup,      \* the raster inside the archive ghsl_url serves
    pc,               \* the statement the run is at
    run,              \* the number of the run
    requests,         \* HTTP requests this run has issued, by URL
    extractions,      \* archive extractions this run has started
    log,              \* the steps this run has completed, in order
    err,              \* the exception that ended this run
    fetched,          \* an earlier run completed the fetch step
    mangrove, builtup,
    mangrove_shapes, builtup_shapes,
    gdf_mangrove, gdf_builtup,
    mangrove_buffer, overlap,
    gdf_mangrove_eq, gdf_builtup_eq, overlap_eq,
    stats,
    printed           \* the statistics lines this run has printed

memory == <<mangrove, builtup, mangrove_shapes, builtup_shapes, gdf_mangrove, gdf_builtup,
            mangrove_buffer, overlap, gdf_mangrove_eq, gdf_builtup_eq, overlap_eq, stats,
            printed>>
sources == <<src_mangrove, src_builtup>>
vars == <<disk, sources, pc, run, requests, extractions, log, err, fetched, memory>>

\* The statements of the script, in the order of the file.
Steps == <<"download_mangrove", "download_ghsl", "clip", "shapes", "to_gdf", "geometry",
           "map", "stats">>

\* The order with the statistics ahead of the map.
StepAfterStatsFirst(s) ==
    CASE s = "geometry" -> "stats"
      [] s = "stats" -> "map"
      [] s = "map" -> "done"
      [] OTHER -> Steps[(CHOOSE i \in 1..Len(Steps) : Steps[i] = s) + 1]

\* The statement that follows s.
StepAfter(s) ==
    LET i == CHOOSE k \in 1..Len(Steps) : Steps[k] = s
    IN IF i = Len(Steps) THEN "done" ELSE Steps[i + 1]

NoErr == [step |-> "none", kind |-> "none", wrote |-> {}]

\* A raised exception that is caught and passed over: the run goes on.
Swallow(kind, wrote) ==
    /\ pc' = StepAfter(pc)
    /\ err' = [step |-> pc, kind |-> kind, wrote |-> wrote]
    /\ log' = Append(log, pc)

\* An unhandled exception: the interpreter exits.
Raise(kind, wrote) ==
    /\ pc' = "aborted"
    /\ err' = [step |-> pc, kind |-> kind, wrote |-> wrote]
    /\ log' = log

Proceed ==
    /\ pc' = StepAfter(pc)
    /\ err' = err
    /\ log' = Append(log, pc)

EmptyMemory ==
    /\ mangrove = NoRaster /\ builtup = NoRaster
    /\ mangrove_shapes = <<>> /\ builtup_shapes = <<>>
    /\ gdf_mangrove = NoLayer /\ gdf_builtup = NoLayer
    /\ mangrove_buffer = NoLayer /\ overlap = NoLayer
    /\ gdf_mangrove_eq = NoLayer /\ gdf_builtup_eq = NoLayer /\ overlap_eq = NoLayer
    /\ stats = NoStats
    /\ printed = <<>>

RunStart ==
    /\ pc = "download_mangrove"
    /\ requests = [u \in {figshare_url, ghsl_url} |-> 0]
    /\ extractions = 0
    /\ log = <<>>
    /\ err = NoErr
    /\ EmptyMemory

\* Rasters with the same value in every cell.
UniformGrids(vals) == {[c \in Cells |-> v] : v \in vals}

\* Mangrove rasters: a background of class 0 with some cells of class 1
\* (mangrove), a background of mangrove with fewer cells of class 0, or one
\* value everywhere: another class, nodata.
MangroveGrids ==
    GridsWith(0, {MangroveClass}, MaxMangrovePx)
        \cup GridsWith(MangroveClass, {0}, MaxMangrovePx - 1)
        \cup UniformGrids({2, NoData})

\* Built-up rasters: a background of 0 with some cells of positive density,
\* or one value everywhere: a positive density, nodata.
BuiltupGrids == GridsWith(0, {60}, MaxBuiltPx) \cup UniformGrids({60, NoData})

\* The first run against an empty data directory.
Init ==
    /\ disk = [f \in Files |-> Absent]
    /\ src_mangrove \in [crs : SourceCrs, data : UniformGrids({0, MangroveClass})]
    /\ src_builtup \in [crs : SourceCrs, data : UniformGrids({0, 60})]
    /\ run = 1
    /\ fetched = FALSE
    /\ RunStart

\* A run that finds both rasters in the data directory, left there by an
\* earlier run.
InitCached ==
    /\ disk = [f \in Files |-> IF f \in {mangrove_tif, ghsl_tif} THEN Dataset ELSE Absent]
    /\ src_mangrove \in [crs : {geographic_crs}, data : MangroveGrids]
    /\ src_builtup \in [crs : {"EPSG:3857"}, data : BuiltupGrids]
    /\ run = 1
    /\ fetched = TRUE
    /\ RunStart

\* Shape generators of at most MaxShapes pairs: the i-th pair holds the
\* geometry of cell (i, 1), well formed or not, and the value 0 or 1.
ShapePairs(i) ==
    [geom : [cells : {{<<i, 1>>}}, wellformed : BOOLEAN], value : {0, 1}]

ShapeGens ==
    UNION {{g \in [1..n -> UNION {ShapePairs(i) : i \in 1..n}] :
              \A i \in 1..n : g[i] \in ShapePairs(i)} : n \in 0..MaxShapes}

\* A run about to call shapes_to_gdf, with any pair of shape generators.
InitToGdf ==
    /\ disk = [f \in Files |-> IF f \in {mangrove_tif, ghsl_tif} THEN Dataset ELSE Absent]
    /\ src_mangrove \in [crs : {geographic_crs}, data : UniformGrids({0})]
    /\ src_builtup \in [crs : {"EPSG:3857"}, data : UniformGrids({0})]
    /\ run = 1
    /\ fetched = TRUE
    /\ pc = "to_gdf"
    /\ requests = [u \in {figshare_url, ghsl_url} |-> 0]
    /\ extractions = 0
    /\ log = <<"download_mangrove", "download_ghsl", "clip", "shapes">>
    /\ err = NoErr
    /\ mangrove = src_mangrove /\ builtup = src_builtup
    /\ mangrove_shapes \in ShapeGens /\ builtup_shapes \in ShapeGens
    /\ gdf_mangrove = NoLayer /\ gdf_builtup = NoLayer
    /\ mangrove_buffer = NoLayer /\ overlap = NoLayer
    /\ gdf_mangrove_eq = NoLayer /\ gdf_builtup_eq = NoLayer /\ overlap_eq = NoLayer
    /\ stats = NoStats
    /\ printed = <<>>

(***************************************************************************)
(* The steps of a run.                                                     *)
(***************************************************************************)
\* download_file(figshare_url, mangrove_tif)
DownloadMangrove ==
    /\ pc = "download_mangrove"
    /\ \E resp \in Responses, wr \in WriteOutcomes :
          LET r == download_file(disk, mangrove_tif, resp, wr)
          IN /\ disk' = r.disk
             /\ requests' = [requests EXCEPT ![figshare_url] = @ + r.gets]
             /\ IF r.raised = "none" THEN Proceed ELSE Raise(r.raised, r.wrote)
    /\ UNCHANGED <<sources, run, extractions, fetched, memory>>

\* if not os.path.exists(ghsl_tif): get, ZipFile, extractall
DownloadGhsl ==
    /\ pc = "download_ghsl"
    /\ \E resp \in Responses, members \in Archives :
          \E ex \in ExtractOutcomes(members) :
             LET r == download_ghsl(disk, resp, members, ex)
             IN /\ disk' = r.disk
                /\ requests' = [requests EXCEPT ![ghsl_url] = @ + r.gets]
                /\ extractions' = extractions + r.extracts
                /\ IF r.raised = "none" THEN Proceed ELSE Raise(r.raised, r.wrote)
    /\ UNCHANGED <<sources, run, fetched, memory>>

\* open_rasterio(...).rio.clip_box(*bbox.bounds), twice.  A file that is no
\* complete GeoTIFF cannot be read; a raster without data inside the box
\* makes clip_box raise.
Clip ==
    /\ pc = "clip"
    /\ IF disk[mangrove_tif] # Dataset \/ disk[ghsl_tif] # Dataset
       THEN Raise("open_error", {}) /\ UNCHANGED <<mangrove, builtup>>
       ELSE \E inbounds \in BOOLEAN :
               IF inbounds
               THEN Proceed /\ mangrove' = src_mangrove /\ builtup' = src_builtup
               ELSE Raise("no_data_in_bounds", {}) /\ UNCHANGED <<mangrove, builtup>>
    /\ UNCHANGED <<disk, sources, run, requests, extractions, fetched, mangrove_shapes,
                   builtup_shapes, gdf_mangrove, gdf_builtup, mangrove_buffer, overlap,
                   gdf_mangrove_eq, gdf_builtup_eq, overlap_eq, stats, printed>>

\* The masks and features.shapes of each.
Shapes ==
    /\ pc = "shapes"
    /\ mangrove_shapes' = shapes(mangrove_mask(mangrove))
    /\ builtup_shapes' = shapes(builtup_mask(builtup))
    /\ Proceed
    /\ UNCHANGED <<disk, sources, run, requests, extractions, fetched, mangrove, builtup,
                   gdf_mangrove, gdf_builtup, mangrove_buffer, overlap,
                   gdf_mangrove_eq, gdf_builtup_eq, overlap_eq, stats, printed>>

\* gdf_mangrove = shapes_to_gdf(mangrove_shapes, mangrove.rio.crs), and built-up
ToGdf ==
    /\ pc = "to_gdf"
    /\ gdf_mangrove' = shapes_to_gdf(mangrove_shapes, mangrove.crs)
    /\ gdf_builtup' = shapes_to_gdf(builtup_shapes, builtup.crs)
    /\ Proceed
    /\ UNCHANGED <<disk, sources, run, requests, extractions, fetched, mangrove, builtup,
                   mangrove_shapes, builtup_shapes, mangrove_buffer, overlap,
                   gdf_mangrove_eq, gdf_builtup_eq, overlap_eq, stats, printed>>

\* The reprojection of the built-up layer left out.
ReprojectBuiltupSkipped(layer) == layer

\* gdf_builtup = gdf_builtup.to_crs(epsg=4326)
ReprojectBuiltup(layer) == to_crs(layer, geographic_crs)

\* to_crs of both layers, the buffer, the overlay
Geometry ==
    /\ pc = "geometry"
    /\ IF ~CanReproject(gdf_mangrove)
       THEN /\ Raise("naive_crs", {})
            /\ UNCHANGED <<gdf_mangrove, gdf_builtup, mangrove_buffer, overlap>>
       ELSE IF ~CanReproject(gdf_builtup)
       THEN /\ Raise("naive_crs", {})
            /\ gdf_mangrove' = to_crs(gdf_mangrove, geographic_crs)
            /\ UNCHANGED <<gdf_builtup, mangrove_buffer, overlap>>
       ELSE /\ Proceed
            /\ gdf_mangrove' = to_crs(gdf_mangrove, geographic_crs)
            /\ gdf_builtup' = ReprojectBuiltup(gdf_builtup)
            /\ mangrove_buffer' = buffer(gdf_mangrove')
            /\ overlap' = overlay(gdf_builtup', mangrove_buffer')
    /\ UNCHANGED <<disk, sources, run, requests, extractions, fetched, mangrove, builtup,
                   mangrove_shapes, builtup_shapes,
                   gdf_mangrove_eq, gdf_builtup_eq, overlap_eq, stats, printed>>

\* The Folium map and m.save: open truncates the file, then the page is written.
MapWrite ==
    /\ pc = "map"
    /\ \E wr \in WriteOutcomes :
          CASE wr = "open_fails" -> Raise("disk_error", {}) /\ disk' = disk
            [] wr = "write_fails" ->
                 Raise("disk_error", {html_map}) /\ disk' = [disk EXCEPT ![html_map] = Partial]
            [] OTHER -> Proceed /\ disk' = [disk EXCEPT ![html_map] = MapHtml]
    /\ UNCHANGED <<sources, run, requests, extractions, fetched, memory>>

\* The three to_crs(equal_area_crs), the stats dict and the prints.
Stats ==
    /\ pc = "stats"
    /\ gdf_mangrove_eq' = to_crs(gdf_mangrove, equal_area_crs)
    /\ gdf_builtup_eq' = to_crs(gdf_builtup, equal_area_crs)
    /\ overlap_eq' = to_crs(overlap, equal_area_crs)
    /\ stats' = [computed |-> TRUE,
                 mangrove |-> AreaSum(gdf_mangrove_eq'),
                 builtup |-> AreaSum(gdf_builtup_eq'),
                 within |-> AreaSum(overlap_eq')]
    /\ printed' = <<Formatted(stats'.mangrove), Formatted(stats'.builtup),
                    Formatted(stats'.within)>>
    /\ Proceed
    /\ UNCHANGED <<disk, sources, run, requests, extractions, fetched, mangrove, builtup,
                   mangrove_shapes, builtup_shapes, gdf_mangrove, gdf_builtup,
                   mangrove_buffer, overlap>>

\* The script is started again against the same data directory.
NewRun ==
    /\ pc \in {"done", "aborted"}
    /\ run < MaxRuns
    /\ run' = run + 1
    /\ fetched' = (fetched \/ "download_ghsl" \in Range(log))
    /\ pc' = "download_mangrove"
    /\ requests' = [u \in {figshare_url, ghsl_url} |-> 0]
    /\ extractions' = 0
    /\ log' = <<>>
    /\ err' = NoErr
    /\ mangrove' = NoRaster /\ builtup' = NoRaster
    /\ mangrove_shapes' = <<>> /\ builtup_shapes' = <<>>
    /\ gdf_mangrove' = NoLayer /\ gdf_builtup' = NoLayer
    /\ mangrove_buffer' = NoLayer /\ overlap' = NoLayer
    /\ gdf_mangrove_eq' = NoLayer /\ gdf_builtup_eq' = NoLayer /\ overlap_eq' = NoLayer
    /\ stats' = NoStats
    /\ printed' = <<>>
    /\ UNCHANGED <<disk, sources>>

Next ==
    \/ DownloadMangrove
    \/ DownloadGhsl
    \/ Clip
    \/ Shapes
    \/ ToGdf
    \/ Geometry
    \/ MapWrite
    \/ Stats
    \/ NewRun

Spec == Init /\ [][Next]_vars

\* One run over cached rasters.
NextCached ==
    \/ DownloadMangrove
    \/ DownloadGhsl
    \/ Clip
    \/ Shapes
    \/ ToGdf
    \/ Geometry
    \/ MapWrite
    \/ Stats

SpecCached == InitCached /\ [][NextCached]_vars

\* shapes_to_gdf applied to any pair of shape generators.
SpecToGdf == InitToGdf /\ [][ToGdf]_vars
(***************************************************************************)
(* Properties.                                                             *)
(***************************************************************************)
FetchSteps == {"download_mangrove", "download_ghsl"}

Done(step) == step \in Range(log)

NoRequests == requests[figshare_url] = 0 /\ requests[ghsl_url] = 0

\* C1: a fetch whose destination exists issues no HTTP request, extracts
\* nothing and leaves every file as it is, whatever the destination holds:
\* download_file with mangrove_tif present, and the GHSL block with
\* ghsl_tif present.
C1_NoFetchWhenPresent ==
    [][/\ (pc = "download_mangrove" /\ disk[mangrove_tif] # Absent)
            => (requests' = requests /\ extractions' = extractions /\ disk' = disk)
       /\ (pc = "download_ghsl" /\ disk[ghsl_tif] # Absent)
            => (requests' = requests /\ extractions' = extractions /\ disk' = disk)]_vars

\* A later run has skipped both fetches over files no successful download
\* wrote: an error page as mangrove_tif, a cut-short ghsl_tif.
C1_Witness ==
    /\ run > 1
    /\ pc = "aborted"
    /\ log = <<"download_mangrove", "download_ghsl">>
    /\ NoRequests /\ extractions = 0
    /\ disk[mangrove_tif] = ErrBody
    /\ disk[ghsl_tif] = Partial

\* C2: once a run has completed the fetch step for both datasets, a later
\* run issues no request and extracts no archive; and after the fetch step
\* both source files exist.
C2_FetchOnFirstRunOnly ==
    /\ fetched => (NoRequests /\ extractions = 0)
    /\ Done("download_ghsl") => (disk[mangrove_tif] # Absent /\ disk[ghsl_tif] # Absent)

\* C3: a network or disk error in either download ends the run at that
\* step: the run is aborted, no later step has run or runs, the URL was
\* requested once, and the files the failed fetch had created are still
\* there.
C3_FetchFailureAborts ==
    /\ \A u \in {figshare_url, ghsl_url} : requests[u] <= 1
    /\ err.step \in FetchSteps =>
         /\ pc = "aborted"
         /\ log = (IF err.step = "download_mangrove" THEN <<>> ELSE <<"download_mangrove">>)
         /\ requests[IF err.step = "download_mangrove" THEN figshare_url ELSE ghsl_url] = 1
         /\ (err.step = "download_mangrove" => requests[ghsl_url] = 0)
         /\ EmptyMemory
         /\ \A f \in err.wrote : disk[f] # Absent

\* A run aborted in the GHSL block by a disk error that left a cut-short
\* ghsl_tif behind.
C3_Witness ==
    /\ pc = "aborted"
    /\ err.step = "download_ghsl"
    /\ err.kind = "disk_error"
    /\ ghsl_tif \in err.wrote
    /\ disk[ghsl_tif] = Partial

InteriorCells == {c \in Cells : 1 < c[1] /\ c[1] < GridW /\ 1 < c[2] /\ c[2] < GridH}

\* The mangrove raster has class 1 in one interior cell and nowhere else,
\* and the built-up raster is positive in that cell.
SingleCellScenario ==
    \E c \in InteriorCells :
       /\ src_mangrove.data[c] = MangroveClass
       /\ \A d \in Cells \ {c} : src_mangrove.data[d] # MangroveClass
       /\ src_builtup.data[c] # NoData /\ src_builtup.data[c] > 0

\* C4: for a mangrove raster with a single interior cell of class 1 and a
\* built-up raster that is positive in that cell, the built-up area within
\* the buffer is positive and at most the built-up area.
C4_SingleCellAreaBound ==
    (stats.computed /\ SingleCellScenario) =>
        (0 < stats.within /\ stats.within <= stats.builtup)

\* The statistics of such a pair of rasters, with built-up area that lies
\* outside the buffer too.
C4_Witness ==
    /\ stats.computed
    /\ SingleCellScenario
    /\ stats.within < stats.builtup

\* The polygons of a layer are exactly the 4-connected regions of the cells
\* where the mask is 1: they cover those cells and no other, no two share
\* a cell or touch along an edge, and each is in one piece.
ExactlyTheTrueRegions(layer, mask) ==
    LET g == layer.geometry
        n == Len(g)
    IN /\ UNION {g[i] : i \in 1..n} = {c \in DOMAIN mask : mask[c] = 1}
       /\ \A i \in 1..n : g[i] # {} /\ Flood({FirstCell(g[i])}, g[i]) = g[i]
       /\ \A i, j \in 1..n :
            i # j => (g[i] \cap g[j] = {} /\ \A c \in g[i] : Adj4(c) \cap g[j] = {})
       /\ (\A c \in DOMAIN mask : mask[c] = 0) => g = <<>>
       /\ (\A c \in DOMAIN mask : mask[c] = 1) => g = <<DOMAIN mask>>

\* C5: the vector layer of a mask holds one polygon per connected region
\* of value 1 and none for a region of value 0; an all-zero mask gives an
\* empty layer, an all-one mask one polygon over the full extent.
C5_VectorizerKeepsTrueRegions ==
    Done("to_gdf") =>
        /\ ExactlyTheTrueRegions(gdf_mangrove, mangrove_mask(mangrove))
        /\ ExactlyTheTrueRegions(gdf_builtup, builtup_mask(builtup))

\* Two separate mangrove regions next to a built-up mask that is 1 everywhere.
C5_Witness ==
    /\ Done("to_gdf")
    /\ Len(gdf_mangrove.geometry) = 2
    /\ gdf_builtup.geometry = <<Cells>>

\* The positions of a generator whose pair has value 1 and a geometry that
\* shape() can build.
Buildable(gen) == {i \in 1..Len(gen) : gen[i].value = 1 /\ gen[i].geom.wellformed}

\* out holds the geometry of every position of Buildable(gen), in the order
\* of the positions.
KeptInOrder(out, gen) ==
    /\ Len(out) = Cardinality(Buildable(gen))
    /\ \A i \in Buildable(gen) :
          out[Cardinality({j \in Buildable(gen) : j <= i})] = gen[i].geom.cells

\* C6: shapes_to_gdf drops a pair whose polygon cannot be built, and only
\* that pair: the run goes on, and the layer holds the value-1 shapes that
\* could be built, in the order of the generator, wherever the failures are.
C6_InvalidShapesSkipped ==
    /\ pc # "aborted" /\ err = NoErr
    /\ Done("to_gdf") =>
         /\ KeptInOrder(gdf_mangrove.geometry, mangrove_shapes)
         /\ KeptInOrder(gdf_builtup.geometry, builtup_shapes)

\* A generator whose second pair fails between two pairs that are kept.
C6_Witness ==
    /\ Done("to_gdf")
    /\ Len(mangrove_shapes) >= 3
    /\ \A i \in {1, 2, 3} : mangrove_shapes[i].value = 1
    /\ mangrove_shapes[1].geom.wellformed
    /\ ~mangrove_shapes[2].geom.wellformed
    /\ mangrove_shapes[3].geom.wellformed
    /\ Len(gdf_mangrove.geometry) = 2

\* C7: a vector layer carries the CRS of its source raster until it is
\* reprojected; once the geometry step is done the mangrove, built-up,
\* buffer and overlap layers all carry EPSG:4326; every layer whose area
\* the statistics sum carries EPSG:6933.
C7_CrsConsistency ==
    /\ pc = "geometry" =>
         (gdf_mangrove.crs = src_mangrove.crs /\ gdf_builtup.crs = src_builtup.crs)
    /\ (Done("to_gdf") /\ ~Done("geometry")) =>
         /\ gdf_builtup.crs = src_builtup.crs
         /\ gdf_mangrove.crs \in {src_mangrove.crs, "EPSG:4326"}
    /\ Done("geometry") =>
         /\ gdf_mangrove.crs = "EPSG:4326" /\ gdf_builtup.crs = "EPSG:4326"
         /\ mangrove_buffer.crs = "EPSG:4326" /\ overlap.crs = "EPSG:4326"
    /\ stats.computed =>
         /\ gdf_mangrove_eq.crs = "EPSG:6933" /\ gdf_builtup_eq.crs = "EPSG:6933"
         /\ overlap_eq.crs = "EPSG:6933"

\* A finished run over a built-up raster in EPSG:3857.
C7_Witness ==
    /\ pc = "done"
    /\ stats.computed
    /\ src_builtup.crs = "EPSG:3857"
    /\ overlap.geometry # <<>>

\* The order the steps are said to have.
FixedOrder ==
    <<"download_mangrove", "download_ghsl", "clip", "shapes", "to_gdf", "geometry", "map",
      "stats">>

C9_WithinAtMostBuiltup ==
    stats.computed =>
        (stats.within <= stats.builtup /\ printed[3] <= printed[2])

\* C10: a destination file that exists once its fetch was skipped or has
\* returned holds the complete body of a successful response.
C10_CacheIntegrity ==
    /\ (Done("download_mangrove") /\ disk[mangrove_tif] # Absent) => disk[mangrove_tif] = Dataset
    /\ (Done("download_ghsl") /\ disk[ghsl_tif] # Absent) => disk[ghsl_tif] = Dataset
=============================================================================
